---- MODULE Spec2Model ----
(***************************************************************************)
(* Model of the upload / ingest pipeline of the local file server          *)
(* (src/unnamed/part_000): handleUpload with convertToWebP and             *)
(* saveOriginalFile, running concurrently with handleFileList,             *)
(* handleServeFile and handleDelete over one upload directory.             *)
(*                                                                         *)
(* Bytes are not enumerated one by one: the payload of request r is the    *)
(* byte range [0, size) of that request's file, and a file on disk holds   *)
(* a range [from, to) of some request's payload (enc = "raw") or the first *)
(* `to` bytes of the WebP encoding of it (enc = "webp").                   *)
(***************************************************************************)
EXTENDS Integers, Sequences, FiniteSets, TLC

\* ------------------------------------------------------------------ bounds
NumReqs == 2        \* upload requests handled (concurrently)
MaxRequests == 2    \* requests of any kind (upload, list, serve, delete) received
MaxFaults == 1      \* storage operations (create, copy, stat) that fail
SmallSize == 1024   \* size in bytes of the small payload

\* ------------------------------------------------------- program constants
MaxFileSize == 52428800
ConvertToWebP == TRUE
StatusCreated == 201
StatusBadRequest == 400
StatusNotFound == 404
StatusMethodNotAllowed == 405
StatusRequestEntityTooLarge == 413
StatusInternalServerError == 500
StatusOK == 200

\* maxRequestSize := MaxFileSize + (10 << 20)
maxRequestSize == MaxFileSize + 10 * (2 ^ 20)

\* io.Copy moves the payload through a 32 KiB buffer, one Read/Write pair at
\* a time; the destination is visible with a prefix between two pairs.
CopyBuf == 32 * 1024

Reqs == 1 .. NumReqs
Ids == 1 .. NumReqs
NoId == 0

Min(a, b) == IF a < b THEN a ELSE b

\* ------------------------------------------------------------- file names
\* A name is a sequence of characters; a generated id is one symbol of it.
Lower(c) ==
    CASE c = "P" -> "p"
      [] c = "N" -> "n"
      [] c = "G" -> "g"
      [] OTHER -> c

RECURSIVE ToLower(_)
ToLower(s) == IF s = <<>> THEN <<>> ELSE <<Lower(Head(s))>> \o ToLower(Tail(s))

\* filepath.Ext: the suffix beginning at the final dot of the last path
\* element, empty when there is no dot.
RECURSIVE ExtFrom(_, _)
ExtFrom(path, i) ==
    IF i < 1 \/ path[i] = "/" THEN <<>>
    ELSE IF path[i] = "." THEN SubSeq(path, i, Len(path))
    ELSE ExtFrom(path, i - 1)

Ext(path) == ExtFrom(path, Len(path))

DotPng == <<".", "p", "n", "g">>
DotJpg == <<".", "j", "p", "g">>
DotJpeg == <<".", "j", "p", "e", "g">>
DotGif == <<".", "g", "i", "f">>
DotWebp == <<".", "w", "e", "b", "p">>

isImageFile(ext) == ext \in {DotJpg, DotJpeg, DotPng, DotGif}

\* id + ext
FileName(id, ext) == <<id>> \o ext

Filenames == {<<"a", ".", "P", "N", "G">>, <<"a", ".", "t", "x", "t">>, <<"a">>}


\* ------------------------------------------------------------ the requests
\* What a client may send to POST /upload.  img says what the image decoders
\* and the WebP encoder make of the payload: "bad" does not decode, "encfail"
\* decodes but cannot be encoded, "ok" decodes and encodes.  An empty payload
\* never decodes.
NoFile == [method |-> "POST", multipart |-> TRUE, bodySize |-> 1, hasFile |-> FALSE,
           filename |-> <<>>, size |-> 0, img |-> "bad"]

FileRequests ==
    {[method |-> "POST", multipart |-> TRUE, bodySize |-> sz + 1, hasFile |-> TRUE,
      filename |-> fn, size |-> sz, img |-> im] :
        fn \in Filenames,
        sz \in {0, SmallSize, MaxFileSize, MaxFileSize + 1},
        im \in {"bad", "encfail", "ok"}}

\* The requests the model draws from: every rejected kind, and for the
\* accepted ones empty and small opaque files with and without extension, an
\* opaque file of exactly MaxFileSize bytes, and an empty, a corrupt, an
\* unencodable and a good image.
Requests ==
    {q \in FileRequests :
        /\ q.img # "bad" => (q.size = SmallSize /\ isImageFile(ToLower(Ext(q.filename))))
        /\ q.size = MaxFileSize => Ext(q.filename) = <<".", "t", "x", "t">>
        /\ q.size > MaxFileSize => Ext(q.filename) # <<>>}
    \cup {NoFile,
          [NoFile EXCEPT !.method = "GET"],
          [NoFile EXCEPT !.multipart = FALSE],
          [NoFile EXCEPT !.bodySize = maxRequestSize + 1, !.hasFile = TRUE,
                         !.filename = <<"a", ".", "t", "x", "t">>,
                         !.size = maxRequestSize]}

NoRequest == [NoFile EXCEPT !.method = "none"]

\* ---------------------------------------------------------------- responses
NoName == <<>>

\* An error response that is never written.
sendErrorResponseDropped(w, error, code, message) == w

\* sendErrorResponse: one ErrorResponse{Error, Code, Message} written to w.
sendErrorResponse(w, error, code, message) ==
    Append(w, [kind |-> "error", code |-> code, error |-> error, message |-> message,
               filename |-> NoName, original_extension |-> <<>>, size |-> 0,
               converted_to_webp |-> FALSE])

\* The UploadResponse written with StatusCreated.
sendUploadResponse(w, filename, originalExt, finalSize, converted) ==
    Append(w, [kind |-> "success", code |-> StatusCreated, error |-> "",
               message |-> "File uploaded successfully",
               filename |-> filename, original_extension |-> originalExt,
               size |-> finalSize, converted_to_webp |-> converted])

\* --------------------------------------------------------------- validation
\* r.ParseMultipartForm behind http.MaxBytesReader(maxRequestSize).
ParseMultipartForm(q) ==
    IF ~q.multipart THEN "invalid"
    ELSE IF q.bodySize > maxRequestSize THEN "tooLarge"
    ELSE "ok"

\* The file size compared with the request limit instead of the file limit.
SizeExceedsRequestLimit(size) == size > maxRequestSize

\* handler.Size > MaxFileSize
SizeExceeds(size) == size > MaxFileSize

\* The checks of handleUpload that precede the id (lines 251-288): the
\* error, code and message of the first one that fails, or NoRejection.
NoRejection == [error |-> "", code |-> 0, message |-> ""]

Rejection(q) ==
    IF q.method # "POST"
    THEN [error |-> "Method not allowed", code |-> StatusMethodNotAllowed,
          message |-> "Use POST method"]
    ELSE IF ParseMultipartForm(q) = "tooLarge"
    THEN [error |-> "File too large", code |-> StatusRequestEntityTooLarge,
          message |-> "Request size exceeds limit"]
    ELSE IF ParseMultipartForm(q) = "invalid"
    THEN [error |-> "Invalid form", code |-> StatusBadRequest,
          message |-> "Form data invalid"]
    ELSE IF ~q.hasFile
    THEN [error |-> "No file provided", code |-> StatusBadRequest,
          message |-> "No file found in form data"]
    ELSE IF SizeExceeds(q.size)
    THEN [error |-> "File too large", code |-> StatusRequestEntityTooLarge,
          message |-> "File size exceeds limit"]
    ELSE NoRejection

\* ------------------------------------------------------------ the directory
\* disk maps each name present in UploadDir to the bytes it holds.
Put(d, n, c) == [x \in DOMAIN d \cup {n} |-> IF x = n THEN c ELSE d[x]]
Remove(d, n) == [x \in DOMAIN d \ {n} |-> d[x]]
FileSize(c) == c.to - c.from

\* os.Create: a new empty file, or the existing one truncated.
osCreate(d, n, r, enc, at) == Put(d, n, [src |-> r, enc |-> enc, from |-> at, to |-> at])

\* A write through an open descriptor: lands in the directory entry unless
\* the entry was unlinked meanwhile.
fdWrite(d, n, k) == IF n \in DOMAIN d THEN [d EXCEPT ![n].to = @ + k] ELSE d

\* webp.Encode: the length of the lossy encoding of the decoded image.
EncodedSize(q) == (q.size \div 2) + 1

\* -------------------------------------------------------------------- state
VARIABLES
    req,       \* req[r]: the request handler r received (NoRequest before it arrives)
    h,         \* h[r]: the locals of handler r and its place in handleUpload
    resp,      \* resp[r]: what handler r wrote to its ResponseWriter, in order
    events,    \* events[r]: the failures handler r met (history)
    disk,      \* the upload directory
    used,      \* ids handed out by uuid.New
    stats,     \* the global Stats
    ops,       \* list / serve / delete requests issued so far
    observed,  \* what the step just taken answered to a list / serve / delete client
    deleted    \* names removed by handleDelete (history)

vars == <<req, h, resp, events, disk, used, stats, ops, observed, deleted>>

Idle == [pc |-> "idle", id |-> NoId, pos |-> 0, filename |-> NoName,
         converted |-> FALSE, finalSize |-> 0, written |-> 0, tmp |-> 0]

NoAnswer == [op |-> "none", code |-> 0, files |-> {}]

Init ==
    /\ req = [r \in Reqs |-> NoRequest]
    /\ h = [r \in Reqs |-> Idle]
    /\ resp = [r \in Reqs |-> <<>>]
    /\ events = [r \in Reqs |-> {}]
    /\ disk = [n \in {} |-> 0]
    /\ used = {}
    /\ stats = [Uploads |-> 0, Gets |-> 0, Deletes |-> 0]
    /\ ops = 0
    /\ observed = NoAnswer
    /\ deleted = {}

originalExt(r) == ToLower(Ext(req[r].filename))

\* An id that does not differ from call to call.
NewIdFixed(u) == 1

\* uuid.New().String(): an id no earlier call returned.
NewId(u) == CHOOSE i \in Ids : i \notin u /\ \A j \in Ids \ u : i <= j

\* The position a failed image decode leaves the stream at: somewhere
\* between the first byte and the end.
DecodeConsumed(q) == IF q.size = 0 THEN {0} ELSE {1, q.size}

\* Seek(0, 0) at the head of convertToWebP and of saveOriginalFile.
SeekStart(pos) == 0

\* ----------------------------------------------------------- handleUpload
\* The storage failures met so far, over all handlers.
StorageFaults == {"create", "stat", "savecreate", "copy"}

RECURSIVE FaultsUpTo(_)
FaultsUpTo(r) ==
    IF r = 0 THEN 0 ELSE Cardinality(events[r] \cap StorageFaults) + FaultsUpTo(r - 1)

MayFail == FaultsUpTo(NumReqs) < MaxFaults

\* The requests received so far, and whether one more may arrive.
Received == Cardinality({r \in Reqs : h[r].pc # "idle"}) + ops
MayArrive == Received < MaxRequests

\* Handler r is the next free one.
NextFree(r) == h[r].pc = "idle" /\ \A p \in Reqs : p < r => h[p].pc # "idle"

\* Lines 251-288: a request that one of the checks rejects.
UploadRejected(r, q) ==
    /\ NextFree(r)
    /\ MayArrive
    /\ Rejection(q) # NoRejection
    /\ req' = [req EXCEPT ![r] = q]
    /\ resp' = [resp EXCEPT ![r] =
           sendErrorResponse(@, Rejection(q).error, Rejection(q).code, Rejection(q).message)]
    /\ h' = [h EXCEPT ![r].pc = "done"]
    /\ observed' = NoAnswer
    /\ UNCHANGED <<events, disk, used, stats, ops, deleted>>

\* Lines 290-317 for an opaque extension: the id, then saveOriginalFile.
UploadOpaque(r, q) ==
    /\ NextFree(r)
    /\ MayArrive
    /\ Rejection(q) = NoRejection
    /\ ~(ConvertToWebP /\ isImageFile(ToLower(Ext(q.filename))))
    /\ req' = [req EXCEPT ![r] = q]
    /\ used' = used \cup {NewId(used)}
    /\ h' = [h EXCEPT ![r].id = NewId(used),
                      ![r].filename = FileName(NewId(used), ToLower(Ext(q.filename))),
                      ![r].pc = "save"]
    /\ observed' = NoAnswer
    /\ UNCHANGED <<resp, events, disk, stats, ops, deleted>>

\* Lines 290-303 and 500-523 for a convertible extension: the id, then
\* convertToWebP rewinds the stream and decodes it; a failed decode falls
\* back to saveOriginalFile (lines 304-308).
UploadImage(r, q) ==
    /\ NextFree(r)
    /\ MayArrive
    /\ Rejection(q) = NoRejection
    /\ ConvertToWebP /\ isImageFile(ToLower(Ext(q.filename)))
    /\ req' = [req EXCEPT ![r] = q]
    /\ used' = used \cup {NewId(used)}
    /\ IF q.img = "bad"
       THEN /\ \E k \in DecodeConsumed(q) :
                 h' = [h EXCEPT ![r].id = NewId(used),
                                ![r].pos = k,
                                ![r].filename = FileName(NewId(used), ToLower(Ext(q.filename))),
                                ![r].pc = "save"]
            /\ events' = [events EXCEPT ![r] = @ \cup {"decode"}]
       ELSE /\ h' = [h EXCEPT ![r].id = NewId(used),
                              ![r].pos = q.size,
                              ![r].pc = "create"]
            /\ events' = events
    /\ observed' = NoAnswer
    /\ UNCHANGED <<resp, disk, stats, ops, deleted>>

\* Only a negative size taken for a failed save.
SaveFailedNegative(finalSize) == finalSize < 0

\* finalSize == 0 (line 320)
SaveFailed(finalSize) == finalSize = 0

\* Lines 320-339, reached with the locals hr: "Save failed", or the
\* UploadResponse, after which stats.Uploads++ reads the counter ...
Respond(r, hr) ==
    IF SaveFailed(hr.finalSize)
    THEN /\ resp' = [resp EXCEPT ![r] =
                sendErrorResponse(@, "Save failed", StatusInternalServerError,
                                  "Could not save file")]
         /\ h' = [h EXCEPT ![r] = [hr EXCEPT !.pc = "done"]]
    ELSE /\ resp' = [resp EXCEPT ![r] =
                sendUploadResponse(@, hr.filename, originalExt(r), hr.finalSize,
                                   hr.converted)]
         /\ h' = [h EXCEPT ![r] = [hr EXCEPT !.tmp = stats.Uploads, !.pc = "count"]]

\* ... and writes it back incremented (the increment is not atomic).
CountUpload(r) ==
    /\ h[r].pc = "count"
    /\ stats' = [stats EXCEPT !.Uploads = h[r].tmp + 1]
    /\ h' = [h EXCEPT ![r].pc = "done"]
    /\ observed' = NoAnswer
    /\ UNCHANGED <<req, resp, events, disk, used, ops, deleted>>

\* The fallback of lines 304-308: filename = id + originalExt, then
\* saveOriginalFile.
Fallback(r, why) ==
    /\ h' = [h EXCEPT ![r].filename = FileName(h[r].id, originalExt(r)), ![r].pc = "save"]
    /\ events' = [events EXCEPT ![r] = @ \cup {why}]
    /\ resp' = resp

webpFilename(r) == FileName(h[r].id, DotWebp)

\* ----------------------------------------------------------- convertToWebP
\* Lines 526-529: os.Create(outputPath).
ConvertCreate(r) ==
    /\ h[r].pc = "create"
    /\ \/ /\ disk' = osCreate(disk, webpFilename(r), r, "webp", 0)
          /\ h' = [h EXCEPT ![r].pc = "encode", ![r].written = 0]
          /\ UNCHANGED <<events, resp>>
       \/ /\ MayFail
          /\ disk' = disk
          /\ Fallback(r, "create")
    /\ observed' = NoAnswer
    /\ UNCHANGED <<req, used, stats, ops, deleted>>

\* The size of the original reported for a converted upload.
ReportedOriginalSize(originalSize, convertedSize) == originalSize

\* finalSize = convertedSize (line 311): the size handleUpload reports for a
\* converted upload of size originalSize.
ReportedSize(originalSize, convertedSize) == convertedSize

\* The output of a failed encode left in place.
EncodeCleanupMissing(d, n) == d

\* os.Remove(outputPath) after a failed webp.Encode (line 539).
EncodeCleanup(d, n) == Remove(d, n)

\* Lines 538-549 and 309-313: webp.Encode fails and the output is removed;
\* or it writes the encoding, and dst.Stat() gives the size handleUpload
\* reports, or fails with the output left in place.
ConvertEncode(r) ==
    /\ h[r].pc = "encode"
    /\ \/ /\ req[r].img # "ok"
          /\ disk' = EncodeCleanup(disk, webpFilename(r))
          /\ Fallback(r, "encode")
       \/ /\ req[r].img = "ok"
          /\ disk' = fdWrite(disk, webpFilename(r), EncodedSize(req[r]))
          /\ Respond(r, [h[r] EXCEPT !.written = EncodedSize(req[r]),
                                     !.filename = webpFilename(r),
                                     !.finalSize = ReportedSize(req[r].size, EncodedSize(req[r])),
                                     !.converted = TRUE])
          /\ events' = events
       \/ /\ req[r].img = "ok"
          /\ MayFail
          /\ disk' = fdWrite(disk, webpFilename(r), EncodedSize(req[r]))
          /\ Fallback(r, "stat")
    /\ observed' = NoAnswer
    /\ UNCHANGED <<req, used, stats, ops, deleted>>

\* -------------------------------------------------------- saveOriginalFile
\* The destination of a failed copy left in place.
CopyCleanupMissing(d, n) == d

\* os.Remove(outputPath) after a failed io.Copy (line 568).
CopyCleanup(d, n) == Remove(d, n)

\* Lines 554-563: the stream is rewound and the destination created; a
\* failed create returns 0.
SaveCreate(r) ==
    /\ h[r].pc = "save"
    /\ \/ /\ disk' = osCreate(disk, h[r].filename, r, "raw", SeekStart(h[r].pos))
          /\ h' = [h EXCEPT ![r].pos = SeekStart(h[r].pos), ![r].written = 0,
                            ![r].pc = "copy"]
          /\ UNCHANGED <<events, resp>>
       \/ /\ MayFail
          /\ disk' = disk
          /\ Respond(r, [h[r] EXCEPT !.pos = SeekStart(h[r].pos), !.finalSize = 0])
          /\ events' = [events EXCEPT ![r] = @ \cup {"savecreate"}]
    /\ observed' = NoAnswer
    /\ UNCHANGED <<req, used, stats, ops, deleted>>

\* The bytes the next step of io.Copy moves: one buffer first, then (the
\* remaining iterations taken together) the rest of the stream.
CopyStep(hr, size) ==
    IF hr.written = 0 THEN Min(CopyBuf, size - hr.pos) ELSE size - hr.pos

\* Lines 566-573: io.Copy(dst, src) step by step; at the end of the stream
\* it returns the bytes written; when it fails the destination is removed
\* and 0 returned.
SaveCopy(r) ==
    /\ h[r].pc = "copy"
    /\ \/ /\ h[r].pos + CopyStep(h[r], req[r].size) < req[r].size
          /\ disk' = fdWrite(disk, h[r].filename, CopyStep(h[r], req[r].size))
          /\ h' = [h EXCEPT ![r].pos = @ + CopyStep(h[r], req[r].size),
                            ![r].written = @ + CopyStep(h[r], req[r].size)]
          /\ UNCHANGED <<events, resp>>
       \/ /\ h[r].pos + CopyStep(h[r], req[r].size) = req[r].size
          /\ disk' = fdWrite(disk, h[r].filename, CopyStep(h[r], req[r].size))
          /\ Respond(r, [h[r] EXCEPT !.pos = req[r].size,
                                     !.written = @ + CopyStep(h[r], req[r].size),
                                     !.finalSize = h[r].written + CopyStep(h[r], req[r].size)])
          /\ events' = events
       \/ /\ MayFail
          /\ disk' = CopyCleanup(disk, h[r].filename)
          /\ Respond(r, [h[r] EXCEPT !.finalSize = 0])
          /\ events' = [events EXCEPT ![r] = @ \cup {"copy"}]
    /\ observed' = NoAnswer
    /\ UNCHANGED <<req, used, stats, ops, deleted>>

\* ------------------------------------------------- list, serve and delete
Entry(d, n) == [name |-> n, size |-> FileSize(d[n])]

\* The names a client may ask for: those present, and the .webp name of
\* every id handed out (present or not).
KnownNames == DOMAIN disk \cup {FileName(i, DotWebp) : i \in used}

\* handleFileList: name and size of every file in UploadDir.
handleFileList ==
    /\ MayArrive
    /\ ops' = ops + 1
    /\ observed' = [op |-> "list", code |-> StatusOK,
                    files |-> {Entry(disk, n) : n \in DOMAIN disk}]
    /\ UNCHANGED <<req, h, resp, events, disk, used, stats, deleted>>

\* handleServeFile: 404 for a missing file, else the file and stats.Gets++.
handleServeFile(n) ==
    /\ MayArrive
    /\ ops' = ops + 1
    /\ \/ /\ n \notin DOMAIN disk
          /\ observed' = [op |-> "serve", code |-> StatusNotFound, files |-> {}]
          /\ stats' = stats
       \/ /\ n \in DOMAIN disk
          /\ observed' = [op |-> "serve", code |-> StatusOK, files |-> {Entry(disk, n)}]
          /\ stats' = [stats EXCEPT !.Gets = @ + 1]
    /\ UNCHANGED <<req, h, resp, events, disk, used, deleted>>

\* handleDelete: 404 for a missing file, else os.Remove and stats.Deletes++.
handleDelete(n) ==
    /\ MayArrive
    /\ ops' = ops + 1
    /\ \/ /\ n \notin DOMAIN disk
          /\ observed' = [op |-> "delete", code |-> StatusNotFound, files |-> {}]
          /\ UNCHANGED <<disk, stats, deleted>>
       \/ /\ n \in DOMAIN disk
          /\ disk' = Remove(disk, n)
          /\ observed' = [op |-> "delete", code |-> StatusOK, files |-> {}]
          /\ stats' = [stats EXCEPT !.Deletes = @ + 1]
          /\ deleted' = deleted \cup {n}
    /\ UNCHANGED <<req, h, resp, events, used>>

\* ------------------------------------------------------------ specification
\* The ingest pipeline: upload requests handled concurrently.
Next ==
    \/ \E r \in Reqs, q \in Requests : UploadRejected(r, q)
    \/ \E r \in Reqs, q \in Requests : UploadOpaque(r, q)
    \/ \E r \in Reqs, q \in Requests : UploadImage(r, q)
    \/ \E r \in Reqs : ConvertCreate(r)
    \/ \E r \in Reqs : ConvertEncode(r)
    \/ \E r \in Reqs : SaveCreate(r)
    \/ \E r \in Reqs : SaveCopy(r)
    \/ \E r \in Reqs : CountUpload(r)

Spec == Init /\ [][Next]_vars

\* The pipeline together with the clients that list, serve and delete.
NextClients ==
    \/ Next
    \/ handleFileList
    \/ \E n \in KnownNames : handleServeFile(n)
    \/ \E n \in KnownNames : handleDelete(n)

SpecClients == Init /\ [][NextClients]_vars

\* ------------------------------------------------------------------ claims
\* Handler r has written its response.
Responded(r) == resp[r] # <<>>
Answer(r) == resp[r][1]

\* Request r passed every check that precedes the id.
Accepted(r) == req[r] # NoRequest /\ Rejection(req[r]) = NoRejection
Convertible(r) == isImageFile(originalExt(r))
NoStorageFault(r) == events[r] \cap StorageFaults = {}

\* The whole payload of request r, as saveOriginalFile stores it.
WholeInput(r) == [src |-> r, enc |-> "raw", from |-> 0, to |-> req[r].size]

\* Handler r answered success for the unconverted file id + originalExt.
StoredVerbatim(r) ==
    /\ Len(resp[r]) = 1
    /\ Answer(r).kind = "success"
    /\ Answer(r).converted_to_webp = FALSE
    /\ Answer(r).filename = FileName(h[r].id, originalExt(r))
    /\ Answer(r).filename \in DOMAIN disk
    /\ disk[Answer(r).filename] = WholeInput(r)

\* The files in the directory whose name starts with the id of handler r.
FilesOf(r) == {n \in DOMAIN disk : n[1] = h[r].id}

\* C1 (as claimed): every opaque upload of at most MaxFileSize bytes, the
\* zero-length one included, is answered with success, converted_to_webp =
\* false, and id + originalExt holds exactly the uploaded bytes (storage
\* operations not failing).
C1_OpaqueRoundTrip ==
    \A r \in Reqs :
        (Responded(r) /\ Accepted(r) /\ ~Convertible(r) /\ NoStorageFault(r))
            => StoredVerbatim(r)

\* C2 (as claimed): every convertible upload whose decode fails, the 0-byte
\* one included, is answered with success, converted_to_webp = false, and
\* id + originalExt holds the whole input from its first byte, with the
\* reported size that of the input (storage operations not failing).
C2_DecodeFailureFallback ==
    \A r \in Reqs :
        (Responded(r) /\ Accepted(r) /\ Convertible(r) /\ "decode" \in events[r]
            /\ NoStorageFault(r))
            => (StoredVerbatim(r) /\ Answer(r).size = req[r].size)

\* C3: an upload whose file exceeds MaxFileSize, or whose body exceeds the
\* transport clamp, is answered 413 "File too large" by the checks that
\* precede the id: no id is generated for it and no file of the directory
\* is created, written or removed on its behalf.
Oversized(q) ==
    /\ q.method = "POST" /\ q.multipart
    /\ (q.hasFile /\ q.size > MaxFileSize) \/ q.bodySize > maxRequestSize

C3_OversizeRejected ==
    \A r \in Reqs :
        (req[r] # NoRequest /\ Oversized(req[r]))
            => /\ h[r].pc = "done"
               /\ Len(resp[r]) = 1
               /\ Answer(r).kind = "error"
               /\ Answer(r).code = StatusRequestEntityTooLarge
               /\ Answer(r).error = "File too large"
               /\ h[r].id = NoId
               /\ \A n \in DOMAIN disk : disk[n].src # r

\* C3 witness: a file over the limit was refused while the directory holds
\* another upload's file.
C3_Witness ==
    \E r \in Reqs :
        /\ req[r].hasFile /\ req[r].size > MaxFileSize
        /\ req[r].bodySize <= maxRequestSize
        /\ Responded(r) /\ Answer(r).code = StatusRequestEntityTooLarge
        /\ DOMAIN disk # {}

\* The number of handlers that answered success.
Successes == Cardinality({r \in Reqs : Responded(r) /\ Answer(r).kind = "success"})

\* C4: when the chosen writer reports zero bytes, or fails to create or copy
\* the file, the only response is 500 "Save failed", the handler ends
\* without incrementing stats.Uploads, and the counter never exceeds the
\* number of success responses.
WriterFailed(r) ==
    /\ Accepted(r) /\ Responded(r)
    /\ h[r].finalSize = 0 \/ events[r] \cap {"savecreate", "copy"} # {}

C4_ZeroBytesIsSaveFailed ==
    /\ \A r \in Reqs :
          WriterFailed(r)
              => /\ h[r].pc = "done"
                 /\ Len(resp[r]) = 1
                 /\ Answer(r).kind = "error"
                 /\ Answer(r).code = StatusInternalServerError
                 /\ Answer(r).error = "Save failed"
    /\ stats.Uploads <= Successes

\* C4 witness: a zero-length upload was answered 500 and its zero-byte file
\* is still in the directory.
C4_Witness ==
    \E r \in Reqs :
        /\ WriterFailed(r) /\ NoStorageFault(r)
        /\ Answer(r).code = StatusInternalServerError
        /\ \E n \in FilesOf(r) : FileSize(disk[n]) = 0

\* The answer for a converted upload: success, id.webp, the size of the file
\* at id.webp, and no id + originalExt beside it.
ConvertedAnswer(r) ==
    /\ Len(resp[r]) = 1
    /\ Answer(r).kind = "success"
    /\ Answer(r).converted_to_webp = TRUE
    /\ Answer(r).filename = FileName(h[r].id, DotWebp)
    /\ Answer(r).filename \in DOMAIN disk
    /\ disk[Answer(r).filename].enc = "webp"
    /\ Answer(r).size = FileSize(disk[Answer(r).filename])
    /\ FileName(h[r].id, originalExt(r)) \notin DOMAIN disk

\* The payload of r was decoded and encoded into the created destination.
Encoded(r) ==
    /\ Accepted(r) /\ Convertible(r) /\ req[r].img = "ok"
    /\ "create" \notin events[r]

OwnerOf(n) == CHOOSE r \in Reqs : h[r].id = n[1]
IntendedSize(n) ==
    IF n = FileName(n[1], DotWebp) /\ Convertible(OwnerOf(n))
    THEN EncodedSize(req[OwnerOf(n)])
    ELSE req[OwnerOf(n)].size

\* After a failed copy the destination of handler r is gone.
CopyFailureRemoved(r) ==
    (Responded(r) /\ "copy" \in events[r]) => h[r].filename \notin DOMAIN disk

\* C6 (as claimed): no list or serve request ever sees an object that is
\* only partly written under its final name, and after a failed copy the
\* destination is gone by the time the error is answered.
C6_Original ==
    /\ observed.op \in {"list", "serve"}
          => \A f \in observed.files : f.size = IntendedSize(f.name)
    /\ \A r \in Reqs : CopyFailureRemoved(r)

\* C6 (amended): once a handler has answered, no file under its id is
\* partly written, and after a failed copy the destination is gone by the
\* time the error is answered (while the handler runs, a list or serve
\* request may see the object partly written under its final name).
C6_NoPartialObjectLeft ==
    \A r \in Reqs :
        /\ Responded(r)
              => \A n \in FilesOf(r) :
                     disk[n].from = 0 /\ FileSize(disk[n]) = IntendedSize(n)
        /\ CopyFailureRemoved(r)

\* C6 witness: a copy failed after part of the payload had been written,
\* the error was answered and nothing of the handler is in the directory.
C6_Witness ==
    \E r \in Reqs :
        /\ Responded(r) /\ "copy" \in events[r] /\ h[r].written > 0
        /\ Answer(r).code = StatusInternalServerError
        /\ FilesOf(r) = {}

\* C7: after webp.Encode failed on the created destination, id.webp does
\* not exist, from the return of convertToWebP on; so the fallback leaves
\* at most id + originalExt under that id.
C7_EncodeFailureRemovesOutput ==
    \A r \in Reqs :
        "encode" \in events[r]
            => /\ FileName(h[r].id, DotWebp) \notin DOMAIN disk
               /\ FilesOf(r) \subseteq {FileName(h[r].id, originalExt(r))}

\* C7 witness: the encode failed, the fallback stored the original, and it
\* is the only file of that id.
C7_Witness ==
    \E r \in Reqs :
        /\ "encode" \in events[r] /\ Responded(r) /\ StoredVerbatim(r)
        /\ FilesOf(r) = {FileName(h[r].id, originalExt(r))}

\* An ingest answered success for the object named n.
Written(n) ==
    \E r \in Reqs : Responded(r) /\ Answer(r).kind = "success" /\ Answer(r).filename = n

\* The entry of name n differs between the two states of a step.
Changed(n) ==
    \/ (n \in DOMAIN disk) # (n \in DOMAIN disk')
    \/ n \in DOMAIN disk /\ n \in DOMAIN disk' /\ disk[n] # disk'[n]

\* C8: a step leaves the bytes of every object an ingest has successfully
\* written as they are, unless it is a delete of that very name; and a step
\* that is no delete creates, changes or removes only files named with the
\* id of the upload handler taking the step.
C8_WrittenObjectsImmutable ==
    [][/\ \A n \in DOMAIN disk :
              Written(n)
                  => \/ n \in DOMAIN disk' /\ disk'[n] = disk[n]
                     \/ /\ observed'.op = "delete" /\ deleted' = deleted \cup {n}
                        /\ DOMAIN disk' = DOMAIN disk \ {n}
       /\ \A n \in DOMAIN disk \cup DOMAIN disk' :
              (Changed(n) /\ observed'.op # "delete")
                  => \E r \in Reqs : h'[r] # h[r] /\ h'[r].id = n[1]
      ]_vars

\* C8 witness: a delete has just removed a file while an object written by
\* another ingest is still in the directory with its bytes.
C8_Witness ==
    /\ observed.op = "delete" /\ observed.code = StatusOK
    /\ deleted # {}
    /\ \E n \in DOMAIN disk :
           Written(n) /\ n \notin deleted /\ disk[n] = WholeInput(OwnerOf(n))

MissingFile(q) ==
    q.method = "POST" /\ ParseMultipartForm(q) = "ok" /\ ~q.hasFile

C10_ErrorStatus ==
    \A r \in Reqs :
        /\ h[r].pc \in {"count", "done"} => Len(resp[r]) = 1
        /\ Len(resp[r]) <= 1
        /\ Responded(r) =>
              /\ Answer(r).kind = "error"
                    => /\ Answer(r).error # "" /\ Answer(r).message # ""
                       /\ Answer(r).code \in {StatusBadRequest, StatusMethodNotAllowed,
                                              StatusRequestEntityTooLarge,
                                              StatusInternalServerError}
                       /\ h[r].pc = "done"
              /\ MissingFile(req[r])
                    => Answer(r).kind = "error" /\ Answer(r).code = StatusBadRequest
              /\ Oversized(req[r])
                    => Answer(r).kind = "error"
                       /\ Answer(r).code = StatusRequestEntityTooLarge
              /\ WriterFailed(r)
                    => Answer(r).kind = "error"
                       /\ Answer(r).code = StatusInternalServerError
              /\ events[r] \cap {"decode", "encode"} # {}
                    => \/ Answer(r).kind = "success" /\ ~Answer(r).converted_to_webp
                       \/ /\ Answer(r).code = StatusInternalServerError
                          /\ WriterFailed(r)

\* C10 witness: the encode failed and so did the fallback write, answered 500.
C10_Witness ==
    \E r \in Reqs :
        /\ "encode" \in events[r] /\ events[r] \cap {"savecreate", "copy"} # {}
        /\ Responded(r) /\ Answer(r).code = StatusInternalServerError

\* Every upload handler that received a request has returned.
AllReturned == \A r \in Reqs : h[r].pc \in {"idle", "done"}

\* C11 (as claimed): once the uploads handled concurrently have all
\* returned, stats.Uploads equals the number of them that answered success;
\* no increment is lost to the interleaving of the unsynchronised
\* read-modify-write.
C11_NoLostIncrement ==
    AllReturned => stats.Uploads = Successes

\* C12 (as claimed): when a handler has returned, the directory holds at
\* most one file whose name starts with its id, and after a success it is
\* exactly the file named in the response, on every failure path of
\* convertToWebP, the failed stat after a successful encode included.
C12_OneFilePerId ==
    \A r \in Reqs :
        (h[r].pc = "done" /\ Responded(r))
            => /\ Cardinality(FilesOf(r)) <= 1
               /\ Answer(r).kind = "success" => FilesOf(r) = {Answer(r).filename}

====
